---- MODULE Spec2Model ----
(***************************************************************************)
(* The command-execution agent of deployment/docker/agent.py: the aiohttp   *)
(* handler execute_command, one instance per request in flight, together    *)
(* with what it acts on: the shell child it spawns, the processes that      *)
(* child starts, the event-loop clock that drives asyncio.wait_for, and the *)
(* agent's own output stream.  Time is counted in milliseconds.             *)
(***************************************************************************)
EXTENDS Integers, Sequences, FiniteSets

\* ---------------------------------------------------------------- bounds
NumReqs == 2        \* request slots of the service
MaxSlack == 2       \* milliseconds the clock may run beyond one timeout
MaxOut == 1         \* bytes a command writes to its two pipes together

\* ------------------------------------------------------------- constants
COMMAND_TIMEOUT_SECONDS == 30
SIGKILL == 9

TimeoutMs == COMMAND_TIMEOUT_SECONDS * 1000
MaxNow == TimeoutMs + MaxSlack
Reqs == 1..NumReqs

\* A byte the child may write: one that is valid UTF-8 and one that is not.
Bytes == {"a", "xFF"}
ExitCodes == {0, 7}

\* ------------------------------------------------------------ the inputs
\* The value bound to the key "command" of a JSON object: absent, or a JSON
\* value given by its type and its size (length of a string or a list, the
\* number itself for a number).  A string is plain text, or holds a lone
\* surrogate ("\ud800"), which json.loads accepts and UTF-8 cannot encode.
Val(type, size, text) == [type |-> type, size |-> size, text |-> text]
CommandValues ==
    { Val("absent", 0, "plain"), Val("null", 0, "plain"),
      Val("str", 0, "plain"), Val("str", 1, "plain"), Val("str", 1, "surrogate"),
      Val("int", 0, "plain"), Val("int", 1, "plain"),
      Val("list", 0, "plain"), Val("list", 1, "plain") }
NoCommand == Val("absent", 0, "plain")

\* A request body: text json.loads rejects, JSON that is not an object (a
\* list, a string, a number, null), or a JSON object.
Bodies ==
    { [kind |-> "notjson", command |-> NoCommand],
      [kind |-> "nonobject", command |-> NoCommand] }
    \cup { [kind |-> "object", command |-> c] : c \in CommandValues }
NoBody == [kind |-> "none", command |-> NoCommand]

\* A test of the key's presence in place of the value's truthiness.
Truthy_PresentOnly(c) == c.type # "absent"

\* Python truthiness of data.get("command"), as `not command` tests it.
Truthy(c) == c.type \in {"str", "int", "list"} /\ c.size # 0

\* asyncio.create_subprocess_shell accepts only str (or bytes) commands.
IsStr(c) == c.type = "str"

\* Whether print can encode the text of the command for the output stream.
Printable(c) == c.text # "surrogate"

\* bytes.decode('utf-8', errors='replace'): an undecodable byte becomes U+FFFD.
DecodeByte(b) == IF b = "xFF" THEN "uFFFD" ELSE b
Decode(bs) == [i \in 1..Len(bs) |-> DecodeByte(bs[i])]

\* ---------------------------------------------------------- the responses
Err(msg, arg) == [msg |-> msg, arg |-> arg]
NoErr == Err("", 0)

NoResp ==
    [kind |-> "none", status |-> 0, keys |-> {}, error |-> NoErr,
     exit_code |-> 0, stdout |-> <<>>, stderr |-> <<>>, execution_time_ms |-> 0]

ErrorOnly(msg, status) ==
    [kind |-> "json", status |-> status, keys |-> {"error"}, error |-> Err(msg, 0),
     exit_code |-> 0, stdout |-> <<>>, stderr |-> <<>>, execution_time_ms |-> 0]

InvalidJsonResponse == ErrorOnly("Invalid JSON", 400)

MissingCommandResponse == ErrorOnly("Missing 'command' field", 400)

ResultKeys == {"exit_code", "stdout", "stderr", "execution_time_ms"}

\* The timeout left to the outer `except Exception`.
TimeoutResponse_AsFailure(ms) ==
    [kind |-> "json", status |-> 500, keys |-> ResultKeys \cup {"error"},
     error |-> Err("TimeoutError", 0),
     exit_code |-> -1, stdout |-> <<>>, stderr |-> <<>>, execution_time_ms |-> ms]

TimeoutResponse(ms) ==
    [kind |-> "json", status |-> 408, keys |-> ResultKeys \cup {"error"},
     error |-> Err("Command timeout after %ss", COMMAND_TIMEOUT_SECONDS),
     exit_code |-> -1, stdout |-> <<>>, stderr |-> <<>>, execution_time_ms |-> ms]

SuccessResponse(code, so, se, ms) ==
    [kind |-> "json", status |-> 200, keys |-> ResultKeys, error |-> NoErr,
     exit_code |-> code, stdout |-> so, stderr |-> se, execution_time_ms |-> ms]

FailureResponse(msg, ms) ==
    [kind |-> "json", status |-> 500, keys |-> ResultKeys \cup {"error"},
     error |-> Err(msg, 0),
     exit_code |-> -1, stdout |-> <<>>, stderr |-> <<>>, execution_time_ms |-> ms]

\* An exception that leaves execute_command: the framework answers for the
\* handler with its own 500, which is not a JSON body of the agent.
UnhandledFault(msg) ==
    [kind |-> "fault", status |-> 500, keys |-> {}, error |-> Err(msg, 0),
     exit_code |-> 0, stdout |-> <<>>, stderr |-> <<>>, execution_time_ms |-> 0]

\* What GET /health answers, with the phases the requests in flight were in
\* when it answered.
NoHealth == [status |-> 0, body |-> "", during |-> {}]
HealthResponse(phases) == [status |-> 200, body |-> "healthy", during |-> phases]

\* What an invocation of the function lister ends in.
NoOutcome == [exit |-> -1, stdout |-> "", names |-> <<>>, stderr |-> "", lineno |-> 0]

\* --------------------------------------------------------------- the state
VARIABLES
    now,         \* the clock, in ms
    logOk,       \* whether a write to the agent's own output stream succeeds
    pc,          \* where each request's handler stands
    body,        \* the body each request carried
    start_time,  \* start_time of each handler
    deadline,    \* when wait_for's timer of each handler is due
    shell,       \* the spawned shell: none, running, zombie, reaped
    returncode,  \* the shell's exit status once it has exited
    bg,          \* a process the shell started: none, running, exited
    out, err,    \* the bytes written so far to the stdout and stderr pipes
    early,       \* the shell exited by itself before the deadline
    killed,      \* process.kill() has been called
    resp,        \* the response sent
    health,      \* the last answer of GET /health
    runs,        \* perf history: the `runs` list of the persisted document
    appended,    \* perf history: every run record main has appended, in order
    invocations, \* perf history: how often main has run
    artifacts,   \* perf history: what the artifact directory holds
    argv,        \* function lister: the command word
    source,      \* function lister: the text on standard input
    outcome      \* function lister: what the invocation ended in

agentVars == <<now, logOk, pc, body, start_time, deadline, shell, returncode, bg,
               out, err, early, killed, resp>>

perfVars == <<runs, appended, invocations, artifacts>>

listerVars == <<argv, source, outcome>>

scriptVars == <<perfVars, listerVars>>

vars == <<agentVars, health, perfVars, listerVars>>

procVars == <<shell, returncode, bg, out, err, early>>

Init ==
    /\ now = 0
    /\ logOk = TRUE
    /\ pc = [r \in Reqs |-> "idle"]
    /\ body = [r \in Reqs |-> NoBody]
    /\ start_time = [r \in Reqs |-> 0]
    /\ deadline = [r \in Reqs |-> 0]
    /\ shell = [r \in Reqs |-> "none"]
    /\ returncode = [r \in Reqs |-> 0]
    /\ bg = [r \in Reqs |-> "none"]
    /\ out = [r \in Reqs |-> <<>>]
    /\ err = [r \in Reqs |-> <<>>]
    /\ early = [r \in Reqs |-> FALSE]
    /\ killed = [r \in Reqs |-> FALSE]
    /\ resp = [r \in Reqs |-> NoResp]
    /\ health = NoHealth
    /\ runs = <<>>
    /\ appended = <<>>
    /\ invocations = 0
    /\ artifacts = "none"
    /\ argv = "unset"
    /\ source = <<>>
    /\ outcome = NoOutcome

\* ------------------------------------------------------------ the handler
\* `return web.json_response(...)`, or the exception leaving the handler.
Respond(r, response) ==
    /\ resp' = [resp EXCEPT ![r] = response]
    /\ pc' = [pc EXCEPT ![r] = "done"]

\* The `except Exception` block: print, then the 500 response.  Its own print
\* raises inside the except block when the stream cannot be written.
Fail(r, msg) ==
    IF logOk
    THEN Respond(r, FailureResponse(msg, now - start_time[r]))
    ELSE Respond(r, UnhandledFault("OSError"))

\* The handler without its `except json.JSONDecodeError`.
ValidationOutcome_NoJsonCheck(b) ==
    IF b.kind \in {"notjson", "nonobject"} THEN "attribute_error"
    ELSE IF ~Truthy(b.command) THEN "missing"
    ELSE "accepted"

\* request.json() and the test of data.get("command"): what the handler does
\* with a body.
ValidationOutcome(b) ==
    IF b.kind = "notjson" THEN "invalid_json"
    ELSE IF b.kind = "nonobject" THEN "attribute_error"
    ELSE IF ~Truthy(b.command) THEN "missing"
    ELSE "accepted"

\* From the request's arrival to the first await after validation: parse the
\* body, validate it, print the command, read start_time.  The print is
\* outside every try block: when it raises, the exception leaves the handler.
Execute(r, b) ==
    /\ pc[r] = "idle"
    /\ now <= MaxSlack
    /\ body' = [body EXCEPT ![r] = b]
    /\ LET v == ValidationOutcome(b) IN
        IF v = "invalid_json"
        THEN Respond(r, InvalidJsonResponse) /\ UNCHANGED start_time
        ELSE IF v = "attribute_error"
        THEN Respond(r, UnhandledFault("AttributeError")) /\ UNCHANGED start_time
        ELSE IF v = "missing"
        THEN Respond(r, MissingCommandResponse) /\ UNCHANGED start_time
        ELSE IF ~Printable(b.command)
        THEN Respond(r, UnhandledFault("UnicodeEncodeError")) /\ UNCHANGED start_time
        ELSE IF ~logOk
        THEN Respond(r, UnhandledFault("OSError")) /\ UNCHANGED start_time
        ELSE /\ pc' = [pc EXCEPT ![r] = "spawning"]
             /\ start_time' = [start_time EXCEPT ![r] = now]
             /\ UNCHANGED resp
    /\ UNCHANGED <<now, logOk, deadline, procVars, killed>>
    /\ UNCHANGED <<health, scriptVars>>

\* create_subprocess_shell returns the process; wait_for starts its timer.
SpawnOk(r) ==
    /\ pc[r] = "spawning"
    /\ IsStr(body[r].command)
    /\ shell' = [shell EXCEPT ![r] = "running"]
    /\ deadline' = [deadline EXCEPT ![r] = now + TimeoutMs]
    /\ pc' = [pc EXCEPT ![r] = "communicate"]
    /\ UNCHANGED <<now, logOk, body, start_time, returncode, bg, out, err,
                   early, killed, resp>>
    /\ UNCHANGED <<health, scriptVars>>

\* create_subprocess_shell raises: ValueError for a command that is not a
\* string, OSError when the shell cannot be started.
SpawnFails(r) ==
    /\ pc[r] = "spawning"
    /\ Fail(r, IF IsStr(body[r].command) THEN "OSError" ELSE "cmd must be a string")
    /\ UNCHANGED <<now, logOk, body, start_time, deadline, procVars, killed>>
    /\ UNCHANGED <<health, scriptVars>>

\* communicate() is complete: both pipes are at end of file (no process holds
\* their write ends) and the shell's exit status has been collected.
CommunicateDone(r) == shell[r] = "reaped" /\ bg[r] # "running"

\* wait_for returns (stdout, stderr): decode, mirror to the log, respond.
CommunicateReturns(r) ==
    /\ pc[r] = "communicate"
    /\ CommunicateDone(r)
    /\ IF logOk
       THEN Respond(r, SuccessResponse(returncode[r], Decode(out[r]), Decode(err[r]),
                                       now - start_time[r]))
       ELSE Fail(r, "OSError")
    /\ UNCHANGED <<now, logOk, body, start_time, deadline, procVars, killed>>
    /\ UNCHANGED <<health, scriptVars>>

\* communicate() raises something other than the timeout.
CommunicateRaises(r) ==
    /\ pc[r] = "communicate"
    /\ Fail(r, "OSError")
    /\ UNCHANGED <<now, logOk, body, start_time, deadline, procVars, killed>>
    /\ UNCHANGED <<health, scriptVars>>

\* process.kill(): SIGKILL to the shell alone, and nothing when the shell has
\* exited already.
KillShell(r) ==
    /\ shell' = [shell EXCEPT ![r] = IF @ = "running" THEN "zombie" ELSE @]
    /\ returncode' = [returncode EXCEPT ![r] =
                        IF shell[r] = "running" THEN -SIGKILL ELSE @]

\* wait_for raises TimeoutError; the handler kills and awaits process.wait().
Timeout(r) ==
    /\ pc[r] = "communicate"
    /\ now >= deadline[r]
    /\ KillShell(r)
    /\ killed' = [killed EXCEPT ![r] = TRUE]
    /\ pc' = [pc EXCEPT ![r] = "reaping"]
    /\ UNCHANGED <<now, logOk, body, start_time, deadline, bg, out, err, early, resp>>
    /\ UNCHANGED <<health, scriptVars>>

\* The response sent without awaiting process.wait().
WaitDone_NoWait(r) == shell[r] # "none"

\* process.wait() returns once the exit status has been collected.
WaitDone(r) == shell[r] = "reaped"

WaitReturns(r) ==
    /\ pc[r] = "reaping"
    /\ WaitDone(r)
    /\ Respond(r, TimeoutResponse(now - start_time[r]))
    /\ UNCHANGED <<now, logOk, body, start_time, deadline, procVars, killed>>
    /\ UNCHANGED <<health, scriptVars>>

\* ----------------------------------------------------------- the processes
\* The command writes a byte to one of its pipes.
ChildWrites(r, b) ==
    /\ pc[r] = "communicate"
    /\ shell[r] = "running" \/ bg[r] = "running"
    /\ Len(out[r]) + Len(err[r]) < MaxOut
    /\ \/ out' = [out EXCEPT ![r] = Append(@, b)] /\ UNCHANGED err
       \/ err' = [err EXCEPT ![r] = Append(@, b)] /\ UNCHANGED out
    /\ UNCHANGED <<now, logOk, pc, body, start_time, deadline, shell, returncode,
                   bg, early, killed, resp>>
    /\ UNCHANGED <<health, scriptVars>>

\* The shell starts a process, which inherits the write ends of both pipes.
ShellForks(r) ==
    /\ shell[r] = "running"
    /\ bg[r] = "none"
    /\ bg' = [bg EXCEPT ![r] = "running"]
    /\ UNCHANGED <<now, logOk, pc, body, start_time, deadline, shell, returncode,
                   out, err, early, killed, resp>>
    /\ UNCHANGED <<health, scriptVars>>

\* The shell exits by itself.
ShellExits(r, code) ==
    /\ shell[r] = "running"
    /\ shell' = [shell EXCEPT ![r] = "zombie"]
    /\ returncode' = [returncode EXCEPT ![r] = code]
    /\ early' = [early EXCEPT ![r] = now < deadline[r]]
    /\ UNCHANGED <<now, logOk, pc, body, start_time, deadline, bg, out, err,
                   killed, resp>>
    /\ UNCHANGED <<health, scriptVars>>

\* The process the shell started exits.
BgExits(r) ==
    /\ bg[r] = "running"
    /\ bg' = [bg EXCEPT ![r] = "exited"]
    /\ UNCHANGED <<now, logOk, pc, body, start_time, deadline, shell, returncode,
                   out, err, early, killed, resp>>
    /\ UNCHANGED <<health, scriptVars>>

\* The event loop's child watcher collects the exit status of the shell.
Reap(r) ==
    /\ shell[r] = "zombie"
    /\ shell' = [shell EXCEPT ![r] = "reaped"]
    /\ UNCHANGED <<now, logOk, pc, body, start_time, deadline, returncode, bg,
                   out, err, early, killed, resp>>
    /\ UNCHANGED <<health, scriptVars>>

\* ---------------------------------------------------------------- the clock
\* Time passes, up to the next thing the event loop has to do: it does not
\* pass the deadline of a running wait_for, and it does not pass while a
\* completed communicate() waits to be returned or an exited shell waits for
\* the child watcher.
Tick(t) ==
    /\ t > now
    /\ t <= MaxNow
    /\ t <= MaxSlack \/ t >= TimeoutMs
    /\ \A r \in Reqs :
          /\ pc[r] = "communicate" => t <= deadline[r] /\ ~CommunicateDone(r)
          /\ pc[r] = "spawning" => t + TimeoutMs <= MaxNow
          /\ shell[r] # "zombie"
    /\ now' = t
    /\ UNCHANGED <<logOk, pc, body, start_time, deadline, procVars, killed, resp>>
    /\ UNCHANGED <<health, scriptVars>>

\* The deadlines of the wait_for timers that are running.
DueTimes == {deadline[r] : r \in {q \in Reqs : pc[q] = "communicate"}}

NextTimes == {now + 1, now + TimeoutMs} \cup DueTimes

\* ------------------------------------------------- faults of the environment
\* The framework cancels the handler's task at one of its awaits
\* (CancelledError is not an Exception: no except block of the handler runs).
Cancel(r) ==
    /\ pc[r] \in {"spawning", "communicate", "reaping"}
    /\ pc' = [pc EXCEPT ![r] = "cancelled"]
    /\ UNCHANGED <<now, logOk, body, start_time, deadline, procVars, killed, resp>>
    /\ UNCHANGED <<health, scriptVars>>

\* The agent's output stream stops accepting writes.
LogBreaks ==
    /\ logOk
    /\ logOk' = FALSE
    /\ UNCHANGED <<now, pc, body, start_time, deadline, procVars, killed, resp>>
    /\ UNCHANGED <<health, scriptVars>>

\* ------------------------------------------------------------ GET /health
InFlight == {"spawning", "communicate", "reaping"}

\* A handler that would wait for the children of the requests in flight.
HealthCheck_Waits ==
    /\ \A r \in Reqs : pc[r] \notin InFlight
    /\ health' = HealthResponse({})
    /\ UNCHANGED <<agentVars, scriptVars>>

\* health_check: no await, no state read or written; the answer itself is
\* all that is recorded.
HealthCheck ==
    /\ health' = HealthResponse({pc[r] : r \in Reqs} \cap InFlight)
    /\ UNCHANGED <<agentVars, scriptVars>>

\* ------------------------------------------- update_perf_history.py: main
HISTORY_CAP == 30
MaxInvocations == 32
MaxVaried == 3

\* What the artifact directory holds for `*_matrix.json`: no file, a file
\* that is not JSON, a JSON object, JSON that is not an object (a list).
ArtifactKinds == {"none", "unparseable", "object", "nonobject"}

\* load_json of the artifact: None when there is no text or no JSON.
LoadJson(a) ==
    CASE a \in {"none", "unparseable"} -> "None"
      [] a = "object" -> "dict"
      [] a = "nonobject" -> "list"

\* run_record, its timestamp the ordinal of the invocation, its artifacts
\* the names of the files that gave a summary.
RunRecord(id, a) ==
    [timestamp |-> id,
     artifacts |-> IF LoadJson(a) = "dict" THEN {"x_matrix.json"} ELSE {}]

\* history["runs"][-30:]
LastRuns(s) ==
    IF Len(s) <= HISTORY_CAP THEN s
    ELSE SubSeq(s, Len(s) - HISTORY_CAP + 1, Len(s))

\* One run of main.  data.get on a truthy value that is no dict raises
\* AttributeError, which nothing catches: the run ends before line 50 and
\* the history file is not written.
Main ==
    /\ invocations < MaxInvocations
    /\ invocations' = invocations + 1
    /\ IF LoadJson(artifacts) = "list"
       THEN UNCHANGED <<runs, appended>>
       ELSE LET run_record == RunRecord(invocations + 1, artifacts) IN
            /\ runs' = LastRuns(Append(runs, run_record))
            /\ appended' = Append(appended, run_record)
    /\ UNCHANGED <<artifacts, agentVars, health, listerVars>>

\* The workflow leaves other files in the artifact directory.
SetArtifacts(a) ==
    /\ invocations < MaxVaried
    /\ a # artifacts
    /\ artifacts' = a
    /\ UNCHANGED <<runs, appended, invocations, agentVars, health, listerVars>>

NextPerf ==
    \/ Main
    \/ \E a \in ArtifactKinds : SetArtifacts(a)

\* The aggregator run again and again by the workflow.
SpecPerf == Init /\ [][NextPerf]_vars

\* ------------------------------------------------------------ ast_tool.py
MaxItems == 2

\* The statements a source is made of: a top-level function, a class with
\* one method, an `async def`, an assignment, a statement that does not
\* parse, and bytes that are not UTF-8.
Items == {"def f", "class A: def g", "async def h", "x = 1", "def (:", "xFF"}
Sources == UNION {[1..n -> Items] : n \in 0..MaxItems}
Commands == {"none", "list-functions", "other"}

RECURSIVE Select(_, _)
\* The names of the items of s that are of kind k, in order.
Select(s, k) ==
    IF s = <<>> THEN <<>>
    ELSE (IF Head(s) = k THEN <<IF k = "def f" THEN "f" ELSE "g">> ELSE <<>>)
         \o Select(Tail(s), k)

\* The walk of line 12 is breadth-first: the ast.FunctionDef nodes of the
\* module's body come before those inside a class body; `async def` is an
\* ast.AsyncFunctionDef and is not collected.
FunctionNames(s) == Select(s, "def f") \o Select(s, "class A: def g")

Has(s, k) == \E i \in 1..Len(s) : s[i] = k
FirstLine(s, k) == CHOOSE i \in 1..Len(s) : s[i] = k /\ \A j \in 1..(i - 1) : s[j] # k

\* list_functions followed by the printing of lines 37-41.  Source text that
\* cannot be encoded as UTF-8 makes compile raise UnicodeEncodeError (or
\* stdin.read raise UnicodeDecodeError), which is no SyntaxError: it leaves
\* the program as a traceback.
ListFunctions(s) ==
    IF Has(s, "xFF")
    THEN [exit |-> 1, stdout |-> "", names |-> <<>>, stderr |-> "traceback", lineno |-> 0]
    ELSE IF Has(s, "def (:")
    THEN [exit |-> 1, stdout |-> "", names |-> <<>>, stderr |-> "error object",
          lineno |-> FirstLine(s, "def (:")]
    ELSE [exit |-> 0, stdout |-> "array", names |-> FunctionNames(s), stderr |-> "",
          lineno |-> 0]

UsageError == [exit |-> 1, stdout |-> "", names |-> <<>>, stderr |-> "usage object", lineno |-> 0]

\* The tool is started with a command word (or none) and a source on stdin.
Start(a, s) ==
    /\ argv = "unset"
    /\ argv' = a
    /\ source' = s
    /\ UNCHANGED <<outcome, agentVars, health, perfVars>>

\* The __main__ block.
Invoke ==
    /\ argv # "unset"
    /\ outcome = NoOutcome
    /\ outcome' = IF argv = "list-functions" THEN ListFunctions(source) ELSE UsageError
    /\ UNCHANGED <<argv, source, agentVars, health, perfVars>>

NextLister ==
    \/ \E a \in Commands, s \in Sources : Start(a, s)
    \/ Invoke

\* One invocation of the function lister.
SpecLister == Init /\ [][NextLister]_vars

\* ------------------------------------------------------- the specifications
\* No other request has arrived.
Alone(r) == \A q \in Reqs \ {r} : pc[q] = "idle"

Next ==
    \/ \E r \in Reqs, b \in Bodies : Alone(r) /\ Execute(r, b)
    \/ \E r \in Reqs : SpawnOk(r)
    \/ \E r \in Reqs : SpawnFails(r)
    \/ \E r \in Reqs : CommunicateReturns(r)
    \/ \E r \in Reqs : CommunicateRaises(r)
    \/ \E r \in Reqs : Timeout(r)
    \/ \E r \in Reqs : WaitReturns(r)
    \/ \E r \in Reqs, b \in Bytes : ChildWrites(r, b)
    \/ \E r \in Reqs : ShellForks(r)
    \/ \E r \in Reqs, c \in ExitCodes : ShellExits(r, c)
    \/ \E r \in Reqs : BgExits(r)
    \/ \E r \in Reqs : Reap(r)
    \/ \E t \in NextTimes : Tick(t)

\* The service handling a request, its output stream writable and its
\* handler left to run.
Spec == Init /\ [][Next]_vars

NextEnv ==
    \/ Next
    \/ \E r \in Reqs : Cancel(r)
    \/ LogBreaks

\* The same with the faults the environment can raise.
SpecEnv == Init /\ [][NextEnv]_vars

\* A blocking wait in a handler: nothing else runs while a child is awaited.
LoopFree_Blocking(r) == \A q \in Reqs \ {r} : pc[q] \notin {"communicate", "reaping"}

\* Every await of the handler (create_subprocess_shell, wait_for,
\* process.wait) yields the event loop: a handler's step never waits for
\* another handler.
LoopFree(r) == TRUE

\* A well-formed request body.
ValidBody == [kind |-> "object", command |-> Val("str", 1, "plain")]

\* A step of the handler of request r.
HandlerStep(r) ==
    /\ LoopFree(r)
    /\ \/ Execute(r, ValidBody)
       \/ SpawnOk(r)
       \/ CommunicateReturns(r)
       \/ Timeout(r)
       \/ WaitReturns(r)

NextConc ==
    \/ \E r \in Reqs : HandlerStep(r)
    \/ \E r \in Reqs, c \in ExitCodes : ShellExits(r, c)
    \/ \E r \in Reqs : Reap(r)
    \/ \E t \in DueTimes : Tick(t)
    \/ HealthCheck

\* The service under well-formed requests in flight together, and the
\* liveness probe; the clock moves from one timer's deadline to the next.
SpecConc == Init /\ [][NextConc]_vars

\* ------------------------------------------------------------- the claims
Ended(r) == pc[r] \in {"done", "cancelled"}
Spawned(r) == shell[r] # "none"
Validated(r) == body[r].kind = "object" /\ Truthy(body[r].command)
TimeoutError == Err("Command timeout after %ss", 30)

\* C1: a request that spawned a child and has ended, whichever way, has no
\* child still running once the deadline has passed.
C1_NoChildPastDeadline ==
    \A r \in Reqs :
        Spawned(r) /\ Ended(r) /\ now > deadline[r] => shell[r] # "running"

\* C2: on the timeout path the deadline elapses, then the child is killed,
\* then the handler waits for the child to be reaped, and only then is the
\* 408 sent: no 408 while the child is unreaped.
C2_TimeoutOrder ==
    /\ [](\A r \in Reqs :
            /\ killed[r] => now >= deadline[r] /\ shell[r] \in {"zombie", "reaped"}
            /\ pc[r] = "reaping" => killed[r] /\ resp[r] = NoResp
            /\ resp[r].status = 408 => killed[r] /\ shell[r] = "reaped")
    /\ [][\A r \in Reqs :
            /\ killed'[r] /\ ~killed[r] =>
                  pc[r] = "communicate" /\ now >= deadline[r] /\ pc'[r] = "reaping"
            /\ resp'[r].status = 408 /\ resp[r].status # 408 =>
                  pc[r] = "reaping" /\ killed[r] /\ shell[r] = "reaped"]_vars

\* A 408 has been sent for a child that the kill signal ended.
C2_Witness ==
    \E r \in Reqs : resp[r].status = 408 /\ returncode[r] = -SIGKILL

\* C3: after the 408 no process of the command, the shell or a process it
\* started, is left.
C3_NoProcessAfterTimeout ==
    \A r \in Reqs :
        resp[r].status = 408 => shell[r] = "reaped" /\ bg[r] # "running"

\* C4: when the deadline elapses before the capture completes, the response
\* is the 408 with the timeout message, exit_code -1, empty stdout and stderr
\* and the time; nothing the child wrote appears in it.
C4_TimeoutResponse ==
    \A r \in Reqs :
        killed[r] /\ pc[r] = "done" =>
            /\ resp[r].kind = "json"
            /\ resp[r].status = 408
            /\ resp[r].error = TimeoutError
            /\ resp[r].exit_code = -1
            /\ resp[r].stdout = <<>>
            /\ resp[r].stderr = <<>>
            /\ resp[r].keys = {"error", "exit_code", "stdout", "stderr",
                               "execution_time_ms"}

\* A timed-out request has been answered whose child had written output.
C4_Witness ==
    \E r \in Reqs : killed[r] /\ pc[r] = "done" /\ Len(out[r]) + Len(err[r]) > 0

\* C5: a command whose shell exits by itself before the deadline is answered
\* 200 with the shell's exit status and the captured output, never 408
\* (the 500 of a failed capture set aside).
C5_EarlyExitIsSuccess ==
    \A r \in Reqs :
        early[r] /\ pc[r] = "done" /\ resp[r].status # 500 =>
            /\ resp[r].status = 200
            /\ resp[r].exit_code = returncode[r]
            /\ resp[r].stdout = Decode(out[r])
            /\ resp[r].stderr = Decode(err[r])

\* C6: a validated request whose handler has run to its end produced exactly
\* one of the outcomes Success (200), Timeout (408), Failure (500).
C6_ExactlyOneOutcome ==
    \A r \in Reqs :
        Validated(r) /\ pc[r] = "done" =>
            resp[r].kind = "json" /\ resp[r].status \in {200, 408, 500}

\* C7: every failure ends in a JSON response with an `error` key and status
\* 400, 408 or 500; no fault leaves the handler.
C7_StructuredFailures ==
    \A r \in Reqs :
        Ended(r) /\ resp[r].status # 200 =>
            /\ resp[r].kind = "json"
            /\ "error" \in resp[r].keys
            /\ resp[r].status \in {400, 408, 500}

\* A `command` that is absent, or an empty string or list.
AbsentOrEmpty(c) == c.type = "absent" \/ (c.type \in {"str", "list"} /\ c.size = 0)

C10_MalformedIs400 ==
    \A r \in Reqs :
        body[r].kind = "object" /\ body[r].command.type # "str" =>
            /\ pc[r] = "done"
            /\ resp[r].status = 400
            /\ shell[r] = "none"

Ready(r) ==
    \/ pc[r] = "idle" /\ now <= MaxSlack
    \/ pc[r] = "spawning"
    \/ pc[r] = "communicate" /\ (CommunicateDone(r) \/ now >= deadline[r])
    \/ pc[r] = "reaping" /\ shell[r] = "reaped"

C13_FaultIs500 ==
    [][\A r \in Reqs :
         SpawnFails(r) \/ CommunicateRaises(r) =>
            /\ resp'[r].kind = "json"
            /\ resp'[r].status = 500
            /\ resp'[r].error.msg \in {"OSError", "cmd must be a string"}
            /\ resp'[r].exit_code = -1
            /\ resp'[r].stdout = <<>> /\ resp'[r].stderr = <<>>
            /\ resp'[r].execution_time_ms = now - start_time[r]]_vars

\* The response carries the execution_time_ms key.
Timed(r) == resp[r].kind = "json" /\ "execution_time_ms" \in resp[r].keys

\* C14: execution_time_ms is a non-negative integer wherever it is
\* reported, and strictly positive for a command that exited before the
\* deadline.
C14_PositiveTime ==
    \A r \in Reqs :
        Timed(r) =>
            /\ resp[r].execution_time_ms >= 0
            /\ resp[r].status = 200 => resp[r].execution_time_ms > 0

\* The child exited by itself / was ended by the service's SIGKILL.
Completed(r) == shell[r] \in {"zombie", "reaped"} /\ returncode[r] # -SIGKILL
Killed(r) == shell[r] \in {"zombie", "reaped"} /\ returncode[r] = -SIGKILL

\* C17: a response for a spawned child is sent only once the child is
\* Completed or Killed, never both, and a child answered as Success was never
\* sent a kill.
C17_StateMachine ==
    \A r \in Reqs :
        Spawned(r) /\ pc[r] = "done" =>
            /\ Completed(r) \/ Killed(r)
            /\ ~(Completed(r) /\ Killed(r))
            /\ resp[r].status = 200 => ~killed[r]

C19_DeadlineFromStart ==
    \A r \in Reqs :
        pc[r] \in {"communicate", "reaping"} =>
            deadline[r] = start_time[r] + TimeoutMs

Min(a, b) == IF a <= b THEN a ELSE b

\* C15: every invocation of main appends exactly one record, and the
\* persisted runs are the most recent 30 of the records appended, in
\* invocation order: min(invocations, 30) of them.
C15_OneRecordPerRun ==
    /\ Len(appended) = invocations
    /\ Len(runs) = Min(invocations, HISTORY_CAP)
    /\ \A i \in 1..Len(runs) :
          /\ Len(appended) - Len(runs) + i \in 1..Len(appended)
          /\ runs[i] = appended[Len(appended) - Len(runs) + i]

\* C16: an invocation of the function lister ends in one of three outcomes:
\* the JSON array on stdout with exit 0; the JSON error object {type,
\* message, lineno, offset} on stderr with a non-zero exit and nothing on
\* stdout; the JSON usage error on stderr with a non-zero exit.
C16_ThreeOutcomes ==
    outcome # NoOutcome =>
        \/ /\ argv = "list-functions"
           /\ outcome.exit = 0 /\ outcome.stdout = "array" /\ outcome.stderr = ""
        \/ /\ argv = "list-functions"
           /\ outcome.exit # 0 /\ outcome.stdout = "" /\ outcome.stderr = "error object"
        \/ /\ argv \in {"none", "other"}
           /\ outcome.exit # 0 /\ outcome.stderr = "usage object"

\* C21: mirroring the captured output to the agent's own stream is
\* best-effort: a command that completed before the deadline is answered 200
\* with its exit code and its decoded stdout and stderr, whether the writes
\* to the stream succeed or fail.
C21_MirrorBestEffort ==
    [][\A r \in Reqs :
         CommunicateReturns(r) =>
            /\ resp'[r].kind = "json"
            /\ resp'[r].status = 200
            /\ resp'[r].exit_code = returncode[r]
            /\ resp'[r].stdout = Decode(out[r])
            /\ resp'[r].stderr = Decode(err[r])]_vars

====
